---- MODULE Spec2Model ----
(***************************************************************************)
(* Record decoding of web-ifc's C++ API (ifc-api): ReadValue, GetArgs,     *)
(* GetRawLineData and GetRawLinesData, over a token tape held by the       *)
(* IfcLoader.  GetArgs is modelled twice: as a state machine whose actions *)
(* are the iterations of its loop (one action per switch case, recursion   *)
(* as an explicit stack of frames), and as the recursive operator GetArgs, *)
(* which computes what one whole call returns.                             *)
(***************************************************************************)
EXTENDS Integers, Sequences, FiniteSets, TLC

(***************************************************************************)
(* Bounds of the explored inputs.                                          *)
(***************************************************************************)
MaxTape == 5        \* longest tape over the structural tokens
MaxValueTape == 2   \* longest tape over every token, all payloads included
MaxBatchTape == 2   \* longest tape of the batch specification
MaxBatch == 3       \* longest expressIDs vector handed to GetRawLinesData
MaxLiveTape == 3    \* longest tape of the specification with fairness

(***************************************************************************)
(* IfcTokenType and the tokens of the tape.                                *)
(***************************************************************************)
TokenCode(k) ==
    CASE k = "UNKNOWN" -> 0
      [] k = "STRING" -> 1
      [] k = "LABEL" -> 2
      [] k = "ENUM" -> 3
      [] k = "REAL" -> 4
      [] k = "REF" -> 5
      [] k = "EMPTY" -> 6
      [] k = "SET_BEGIN" -> 7
      [] k = "SET_END" -> 8
      [] k = "LINE_END" -> 9
      [] k = "INTEGER" -> 10

Tok(k, p) == [kind |-> k, payload |-> p]

\* tokens without a payload carry the empty string
LINE_END == Tok("LINE_END", "")
SET_END == Tok("SET_END", "")
SET_BEGIN == Tok("SET_BEGIN", "")
EMPTY == Tok("EMPTY", "")
UNKNOWN == Tok("UNKNOWN", "")

EnumPayloads == {"T", "F", "U", "X", "TRUE"}
LabelNames == {"IFCLABEL", "NOSUCHTYPE"}

StructTokens ==
    {LINE_END, SET_END, SET_BEGIN, EMPTY, UNKNOWN,
     Tok("LABEL", "IFCLABEL"), Tok("INTEGER", 42)}

AllTokens ==
    StructTokens
    \cup {Tok("ENUM", s) : s \in EnumPayloads}
    \cup {Tok("LABEL", s) : s \in LabelNames}
    \cup {Tok("STRING", "\\X\\41"), Tok("STRING", "wall"),
          Tok("REAL", 3), Tok("REF", 5)}

SeqsUpTo(S, n) == UNION {[1..k -> S] : k \in 0..n}

(***************************************************************************)
(* The value model of ifc-api.h.                                           *)
(***************************************************************************)
\* IfcSimpleValueVariant: the active alternative and its value
Simple(alt, v) == [alt |-> alt, v |-> v]
Monostate == Simple("monostate", "")

\* IfcArgument: a variant over IfcSimpleValueVariant, IfcArgumentList and
\* IfcArgumentObject
ArgSimple(s) == [shape |-> "Scalar", simple |-> s]
ArgList(l) == [shape |-> "List", items |-> l]
ArgObject(o) == [shape |-> "Object", map |-> o]

\* std::optional<uint32_t>: <<>> is std::nullopt, <<v>> holds v
Nullopt == <<>>
Some(v) == <<v>>

\* IfcRawLine() leaves ID and type empty and arguments a std::monostate
IfcRawLine == [ID |-> Nullopt, type |-> Nullopt, arguments |-> ArgSimple(Monostate)]

\* a list that grows at its front
EmplaceBack_Front(l, a) == <<a>> \o l

\* IfcArgumentList is a std::vector; emplace_back appends
EmplaceBack(l, a) == Append(l, a)

\* a nested list spliced into the list of its caller
EmplaceList_Spliced(l, nested) == l \o nested

\* line 98: the list a nested call returned, wrapped in one IfcArgument
EmplaceList(l, nested) == EmplaceBack(l, ArgList(nested))

\* IfcArgumentObject is an unordered_map; insert keeps an existing key
EmptyObject == <<>>
Insert(o, k, v) ==
    IF k \in DOMAIN o THEN o
    ELSE [x \in DOMAIN o \cup {k} |-> IF x = k THEN v ELSE o[x]]

(***************************************************************************)
(* The collaborators: IfcLoader (token stream and line table), the schema  *)
(* manager and the model manager.                                          *)
(***************************************************************************)
ExpressIDs == 1..4

IsAtEnd(t, p) == p > Len(t)

\* the classification GetTokenType returns at p; past the end of the tape
\* the read is out of bounds and the classification is not a token's
KindAt(t, p) == IF p \in 1..Len(t) THEN t[p].kind ELSE "NONE"

StringKinds == {"STRING", "ENUM", "LABEL"}

\* an accessor reads the payload of the token at the cursor; on a token of
\* another kind it reads bytes that are not its payload
GarbageString == "?"
GarbageNumber == -1
GetStringArgument(t, p) ==
    IF KindAt(t, p) \in StringKinds THEN t[p].payload ELSE GarbageString
P21Decode(s) == IF s = "\\X\\41" THEN "A" ELSE s
GetDecodedStringArgument(t, p) == P21Decode(GetStringArgument(t, p))
GetDoubleArgument(t, p) ==
    IF KindAt(t, p) = "REAL" THEN t[p].payload ELSE GarbageNumber
GetIntArgument(t, p) ==
    IF KindAt(t, p) = "INTEGER" THEN t[p].payload ELSE GarbageNumber
GetRefArgument(t, p) ==
    IF KindAt(t, p) = "REF" THEN t[p].payload ELSE GarbageNumber

IfcTypeToTypeCode(s) == IF s = "IFCLABEL" THEN 31 ELSE 0

\* the line table: line 1 starts the tape, line 2 follows the first
\* LINE_END, line 3 is a line whose type is unresolved, 4 is no line
LineEnds(t) == {i \in 1..Len(t) : t[i].kind = "LINE_END"}
FirstLineEnd(t) == CHOOSE i \in LineEnds(t) : \A j \in LineEnds(t) : i <= j
IsValidExpressID(t, id) ==
    \/ id \in {1, 3}
    \/ id = 2 /\ LineEnds(t) # {}
GetLineType(t, id) ==
    CASE id = 1 -> 10
      [] id = 2 /\ LineEnds(t) # {} -> 20
      [] OTHER -> 0
\* MoveToArgumentOffset(expressID, 0): the cursor at the first argument
ArgumentOffset(t, id) == IF id = 2 THEN FirstLineEnd(t) + 1 ELSE 1

\* GetRawLineData without its check of the line type
NoLine_NoTypeCheck(t, open, id) ==
    \/ ~open
    \/ ~IsValidExpressID(t, id)

\* the three early returns of GetRawLineData
NoLine(t, open, id) ==
    \/ ~open
    \/ ~IsValidExpressID(t, id)
    \/ GetLineType(t, id) = 0

(***************************************************************************)
(* ReadValue: the token at the cursor p (after StepBack) read through the  *)
(* accessor that the classification k selects.                             *)
(***************************************************************************)
\* ReadValue reading an INTEGER token through the accessor of REAL
Accessor_IntAsReal(k) ==
    CASE k = "STRING" -> "GetDecodedStringArgument"
      [] k = "ENUM" -> "GetStringArgument"
      [] k = "REAL" -> "GetDoubleArgument"
      [] k = "INTEGER" -> "GetDoubleArgument"
      [] k = "REF" -> "GetRefArgument"
      [] OTHER -> "none"

Accessor(k) ==
    CASE k = "STRING" -> "GetDecodedStringArgument"
      [] k = "ENUM" -> "GetStringArgument"
      [] k = "REAL" -> "GetDoubleArgument"
      [] k = "INTEGER" -> "GetIntArgument"
      [] k = "REF" -> "GetRefArgument"
      [] OTHER -> "none"

\* the loader's accessor a called with the cursor at p
Call(a, t, p) ==
    CASE a = "GetDecodedStringArgument" -> GetDecodedStringArgument(t, p)
      [] a = "GetStringArgument" -> GetStringArgument(t, p)
      [] a = "GetDoubleArgument" -> GetDoubleArgument(t, p)
      [] a = "GetIntArgument" -> GetIntArgument(t, p)
      [] a = "GetRefArgument" -> GetRefArgument(t, p)

\* an ENUM payload compared by its first letter only
EnumValue_Prefix(s) ==
    IF s \in {"T", "TRUE"} THEN Simple("bool", TRUE)
    ELSE IF s = "F" THEN Simple("bool", FALSE)
    ELSE IF s = "U" THEN Monostate
    ELSE Simple("string", s)

\* the alternative ReadValue stores for an ENUM payload s
EnumValue(s) ==
    IF s = "T" THEN Simple("bool", TRUE)
    ELSE IF s = "F" THEN Simple("bool", FALSE)
    ELSE IF s = "U" THEN Monostate
    ELSE Simple("string", s)

ReadValue(t, p, k) ==
    CASE k = "STRING" -> Simple("string", Call(Accessor(k), t, p))
      [] k = "ENUM" -> EnumValue(Call(Accessor(k), t, p))
      [] k = "REAL" -> Simple("double", Call(Accessor(k), t, p))
      [] k = "INTEGER" -> Simple("long", Call(Accessor(k), t, p))
      [] k = "REF" -> Simple("uint32_t", Call(Accessor(k), t, p))
      [] OTHER -> Monostate

\* UNKNOWN handled as a simple value, which ReadValue reads as std::monostate
SimpleKinds_WithUnknown == {"STRING", "ENUM", "REAL", "INTEGER", "REF", "UNKNOWN"}

SimpleKinds == {"STRING", "ENUM", "REAL", "INTEGER", "REF"}
Terminators == {"LINE_END", "SET_END"}

\* an object that gets no "typecode" when the label name is not resolved
LabelObject_SkipUnresolved(t, p) ==
    LET o1 == Insert(EmptyObject, "type", ArgSimple(Simple("long", TokenCode("LABEL"))))
        s == GetStringArgument(t, p - 1)
    IN  IF IfcTypeToTypeCode(s) = 0 THEN o1
        ELSE Insert(o1, "typecode", ArgSimple(Simple("uint32_t", IfcTypeToTypeCode(s))))

\* the object GetArgs builds for a LABEL token read at p - 1 (the cursor is
\* at p after GetTokenType), before its "value" is known
LabelObject(t, p) ==
    LET o1 == Insert(EmptyObject, "type", ArgSimple(Simple("long", TokenCode("LABEL"))))
        s == GetStringArgument(t, p - 1)
    IN  Insert(o1, "typecode", ArgSimple(Simple("uint32_t", IfcTypeToTypeCode(s))))

(***************************************************************************)
(* GetArgs as a function: the list one call returns and the cursor it      *)
(* leaves, from the cursor p and the arguments collected so far.           *)
(***************************************************************************)
RECURSIVE GetArgs(_, _, _)
GetArgs(t, p, arguments) ==
    IF IsAtEnd(t, p) THEN [arguments |-> arguments, pos |-> p]
    ELSE
    LET k == KindAt(t, p) IN
    CASE k \in Terminators -> [arguments |-> arguments, pos |-> p + 1]
      [] k = "EMPTY" -> GetArgs(t, p + 1, EmplaceBack(arguments, ArgSimple(Monostate)))
      [] k = "SET_BEGIN" ->
            LET r == GetArgs(t, p + 1, <<>>) IN
            GetArgs(t, r.pos, EmplaceList(arguments, r.arguments))
      [] k = "LABEL" ->
            LET r == GetArgs(t, p + 2, <<>>)
                obj == Insert(LabelObject(t, p + 1), "value", ArgList(r.arguments))
            IN  GetArgs(t, r.pos, EmplaceBack(arguments, ArgObject(obj)))
      [] k \in SimpleKinds ->
            GetArgs(t, p + 1, EmplaceBack(arguments, ArgSimple(ReadValue(t, p, k))))
      [] OTHER -> GetArgs(t, p + 1, arguments)

\* what GetRawLineData returns, as a function of the loader and the manager
RawLineOf(t, open, id) ==
    IF NoLine(t, open, id)
    THEN IfcRawLine
    ELSE [ID |-> Some(id), type |-> Some(GetLineType(t, id)),
          arguments |-> ArgList(GetArgs(t, ArgumentOffset(t, id), <<>>).arguments)]

(***************************************************************************)
(* The state machine.                                                      *)
(***************************************************************************)
VARIABLES
    tape,        \* IfcLoader: the token stream
    modelOpen,   \* ModelManager: IsModelOpen(modelID)
    pos,         \* IfcLoader: the cursor of the token stream
    pc,          \* "idle", "GetArgs", "GetRawLinesData" or "done"
    api,         \* the entry point that was called
    expressID,   \* GetRawLineData: its expressID parameter
    expressIDs,  \* GetRawLinesData: its expressIDs parameter
    stack,       \* the frames of the running GetArgs calls, innermost last
    retVal,      \* what the last GetRawLineData call returned
    result,      \* GetRawLinesData: its result vector
    it,          \* GetRawLinesData: the index of the loop in expressIDs
    ops          \* the loader calls of the current GetRawLineData call

vars == <<tape, modelOpen, pos, pc, api, expressID, expressIDs, stack,
          retVal, result, it, ops>>

\* a frame holds the locals of one GetArgs call; at is "loop" while the call
\* runs its loop, and the line of the recursive call it waits in otherwise
Frame == [arguments |-> <<>>, endOfList |-> FALSE, obj |-> EmptyObject, at |-> "loop"]
Top == stack[Len(stack)]
SetTop(f) == [stack EXCEPT ![Len(stack)] = f]

Op(o, k, p, l) == [op |-> o, kind |-> k, at |-> p, line |-> l]

\* the cursor after GetTokenType; past the end of the tape the read is out
\* of bounds and the cursor may or may not move
GetTokenType(t, p) == IF IsAtEnd(t, p) THEN {p, p + 1} ELSE {p + 1}
StepBack(p) == p - 1

\* the state after the file is loaded, for the tapes of T
Loaded(T) ==
    /\ tape \in T
    /\ modelOpen \in BOOLEAN
    /\ pos = Len(tape) + 1
    /\ pc = "idle"
    /\ api = "none"
    /\ expressID = 0
    /\ expressIDs = <<>>
    /\ stack = <<>>
    /\ retVal = <<>>      \* no call has returned yet
    /\ result = <<>>
    /\ it = 1
    /\ ops = <<>>

Init == Loaded(SeqsUpTo(StructTokens, MaxTape) \cup SeqsUpTo(AllTokens, MaxValueTape))

\* a result vector that leaves out the records of invalid lines
PushBack_SkipEmpty(v, x) == IF x = IfcRawLine THEN v ELSE Append(v, x)

\* result.push_back of GetRawLinesData
PushBack(v, x) == Append(v, x)

\* GetRawLineData up to its call of GetArgs (lines 160-170); an invalid
\* line returns IfcRawLine() at once, to the loop of GetRawLinesData or to
\* the caller
Enter(id) ==
    /\ expressID' = id
    /\ ops' = <<>>
    /\ IF NoLine(tape, modelOpen, id)
       THEN /\ retVal' = IfcRawLine
            /\ result' = IF api' = "GetRawLinesData" THEN PushBack(result, IfcRawLine) ELSE result
            /\ pc' = IF api' = "GetRawLinesData" THEN "GetRawLinesData" ELSE "done"
            /\ UNCHANGED <<pos, stack>>
       ELSE /\ pos' = ArgumentOffset(tape, id)
            /\ stack' = <<Frame>>
            /\ pc' = "GetArgs"
            /\ UNCHANGED <<retVal, result>>

GetRawLineData(id) ==
    /\ pc = "idle"
    /\ api' = "GetRawLineData"
    /\ Enter(id)
    /\ UNCHANGED <<tape, modelOpen, expressIDs, it>>

\* a loop condition that does not test the end of the stream
InLoop_NoEndCheck ==
    /\ pc = "GetArgs"
    /\ ~Top.endOfList

\* the loop of GetArgs is entered: not at the end, and no terminator yet
InLoop ==
    /\ pc = "GetArgs"
    /\ ~IsAtEnd(tape, pos)
    /\ ~Top.endOfList

LoopOps == <<Op("IsAtEnd", "", pos, 71), Op("GetTokenType", KindAt(tape, pos), pos, 73)>>

GetArgs_Terminator ==
    /\ InLoop
    /\ KindAt(tape, pos) \in Terminators
    /\ \E p1 \in GetTokenType(tape, pos) : pos' = p1
    /\ stack' = SetTop([Top EXCEPT !.endOfList = TRUE])
    /\ ops' = ops \o LoopOps
    /\ UNCHANGED <<tape, modelOpen, pc, api, expressID, expressIDs, retVal, result, it>>

GetArgs_Empty ==
    /\ InLoop
    /\ KindAt(tape, pos) = "EMPTY"
    /\ \E p1 \in GetTokenType(tape, pos) : pos' = p1
    /\ stack' = SetTop([Top EXCEPT !.arguments = EmplaceBack(@, ArgSimple(Monostate))])
    /\ ops' = ops \o LoopOps
    /\ UNCHANGED <<tape, modelOpen, pc, api, expressID, expressIDs, retVal, result, it>>

GetArgs_SetBegin ==
    /\ InLoop
    /\ KindAt(tape, pos) = "SET_BEGIN"
    /\ \E p1 \in GetTokenType(tape, pos) : pos' = p1
    /\ stack' = Append(SetTop([Top EXCEPT !.at = "98"]), Frame)
    /\ ops' = ops \o LoopOps
    /\ UNCHANGED <<tape, modelOpen, pc, api, expressID, expressIDs, retVal, result, it>>

GetArgs_Label ==
    /\ InLoop
    /\ KindAt(tape, pos) = "LABEL"
    /\ \E p1 \in GetTokenType(tape, pos) :
         LET p2 == StepBack(p1)
             p3 == p2 + 1      \* GetStringArgument reads the token at p2
         IN  \E p4 \in GetTokenType(tape, p3) :
               /\ pos' = p4
               /\ stack' = Append(SetTop([Top EXCEPT !.at = "122",
                                                     !.obj = LabelObject(tape, p1)]), Frame)
               /\ ops' = ops \o LoopOps \o
                         <<Op("StepBack", "", p1, 110),
                           Op("GetStringArgument", KindAt(tape, p2), p2, 111),
                           Op("GetTokenType", KindAt(tape, p3), p3, 118)>>
    /\ UNCHANGED <<tape, modelOpen, pc, api, expressID, expressIDs, retVal, result, it>>

GetArgs_Simple ==
    /\ InLoop
    /\ KindAt(tape, pos) \in SimpleKinds
    /\ \E p1 \in GetTokenType(tape, pos) :
         LET t == KindAt(tape, pos)
             p2 == StepBack(p1)
             simpleVal == ReadValue(tape, p2, t)
         IN  /\ pos' = p2 + 1   \* the accessor of ReadValue reads the token at p2
             /\ stack' = SetTop([Top EXCEPT !.arguments = EmplaceBack(@, ArgSimple(simpleVal))])
             /\ ops' = ops \o LoopOps \o
                       <<Op("StepBack", "", p1, 136),
                         Op(Accessor(t), KindAt(tape, p2), p2, 138)>>
    /\ UNCHANGED <<tape, modelOpen, pc, api, expressID, expressIDs, retVal, result, it>>

GetArgs_Default ==
    /\ InLoop
    /\ KindAt(tape, pos) \notin
         Terminators \cup SimpleKinds \cup {"EMPTY", "SET_BEGIN", "LABEL"}
    /\ \E p1 \in GetTokenType(tape, pos) : pos' = p1
    /\ ops' = ops \o LoopOps
    /\ UNCHANGED <<tape, modelOpen, pc, api, expressID, expressIDs, stack, retVal, result, it>>

\* the loop ends and the call returns its arguments: to the call of line 98
\* or of line 122, or to GetRawLineData (lines 170-176), which returns the
\* line to its caller or to the loop of GetRawLinesData
GetArgs_Return ==
    /\ pc = "GetArgs"
    /\ IsAtEnd(tape, pos) \/ Top.endOfList
    /\ ops' = Append(ops, Op("IsAtEnd", "", pos, 71))
    /\ LET arguments == Top.arguments
           rest == SubSeq(stack, 1, Len(stack) - 1)
           caller == rest[Len(rest)]
       IN  IF rest = <<>>
           THEN LET line == [ID |-> Some(expressID),
                             type |-> Some(GetLineType(tape, expressID)),
                             arguments |-> ArgList(arguments)]
                IN  /\ stack' = <<>>
                    /\ retVal' = line
                    /\ result' = IF api = "GetRawLinesData" THEN PushBack(result, line) ELSE result
                    /\ pc' = IF api = "GetRawLinesData" THEN "GetRawLinesData" ELSE "done"
           ELSE /\ stack' =
                     [rest EXCEPT ![Len(rest)] =
                        IF caller.at = "98"
                        THEN [caller EXCEPT !.arguments = EmplaceList(@, arguments),
                                            !.at = "loop"]
                        ELSE [caller EXCEPT
                                !.arguments = EmplaceBack(@, ArgObject(
                                    Insert(caller.obj, "value", ArgList(arguments)))),
                                !.obj = EmptyObject,
                                !.at = "loop"]]
                /\ UNCHANGED <<retVal, result, pc>>
    /\ UNCHANGED <<tape, modelOpen, pos, api, expressID, expressIDs, it>>

GetArgsStep ==
    \/ GetArgs_Terminator
    \/ GetArgs_Empty
    \/ GetArgs_SetBegin
    \/ GetArgs_Label
    \/ GetArgs_Simple
    \/ GetArgs_Default
    \/ GetArgs_Return

Next ==
    \/ \E id \in ExpressIDs : GetRawLineData(id)
    \/ GetArgsStep

Spec == Init /\ [][Next]_vars

(***************************************************************************)
(* GetRawLinesData: the loop over expressIDs, one GetRawLineData call per  *)
(* element.                                                                *)
(***************************************************************************)
GetRawLinesData(ids) ==
    /\ pc = "idle"
    /\ api' = "GetRawLinesData"
    /\ expressIDs' = ids
    /\ result' = <<>>
    /\ it' = 1
    /\ pc' = "GetRawLinesData"
    /\ UNCHANGED <<tape, modelOpen, pos, expressID, stack, retVal, ops>>

GetRawLinesData_Loop ==
    /\ pc = "GetRawLinesData"
    /\ it <= Len(expressIDs)
    /\ it' = it + 1
    /\ api' = api
    /\ Enter(expressIDs[it])
    /\ UNCHANGED <<tape, modelOpen, expressIDs>>

GetRawLinesData_Return ==
    /\ pc = "GetRawLinesData"
    /\ it > Len(expressIDs)
    /\ pc' = "done"
    /\ UNCHANGED <<tape, modelOpen, pos, api, expressID, expressIDs, stack,
                   retVal, result, it, ops>>

InitBatch == Loaded(SeqsUpTo(StructTokens, MaxBatchTape))

NextBatch ==
    \/ \E ids \in SeqsUpTo(ExpressIDs, MaxBatch) : GetRawLinesData(ids)
    \/ GetRawLinesData_Loop
    \/ GetRawLinesData_Return
    \/ GetArgsStep

SpecBatch == InitBatch /\ [][NextBatch]_vars

(***************************************************************************)
(* The calls the properties are about.                                     *)
(***************************************************************************)
\* a GetRawLineData call has returned to its caller
Returned == pc = "done" /\ api = "GetRawLineData"

\* the line asked for is invalid for one of the three reasons
InvalidLine ==
    \/ ~modelOpen
    \/ ~IsValidExpressID(tape, expressID)
    \/ GetLineType(tape, expressID) = 0

DepthAt(t, a, p) ==
    Cardinality({i \in a..(p - 1) : t[i].kind = "SET_BEGIN"})
    - Cardinality({i \in a..(p - 1) : t[i].kind = "SET_END"})

\* the SET_END tokens that close the section starting at a
Closers(t, a) == {p \in a..Len(t) : t[p].kind = "SET_END" /\ DepthAt(t, a, p) = 0}
SectionEnd(t, a) == CHOOSE e \in Closers(t, a) : \A c \in Closers(t, a) : e <= c

\* the section is closed by a SET_END, no LINE_END comes before it, and
\* every LABEL in it is followed by the SET_BEGIN of its value list
WellNested(t, a) ==
    /\ Closers(t, a) # {}
    /\ \A p \in a..(SectionEnd(t, a) - 1) :
         /\ t[p].kind # "LINE_END"
         /\ t[p].kind = "LABEL" => t[p + 1].kind = "SET_BEGIN"

ArgumentKinds == SimpleKinds \cup {"EMPTY", "SET_BEGIN", "LABEL"}

\* the tokens that start a top-level argument of the section
TopLevel(t, a) ==
    {p \in a..(SectionEnd(t, a) - 1) :
        /\ DepthAt(t, a, p) = 0
        /\ t[p].kind \in ArgumentKinds
        /\ ~(t[p].kind = "SET_BEGIN" /\ p > a /\ t[p - 1].kind = "LABEL")}
Nth(S, i) == CHOOSE p \in S : Cardinality({q \in S : q < p}) = i - 1

\* the Scalar a payload token stands for
Denotes(tok) ==
    CASE tok.kind = "STRING" -> [alt |-> "string", v |-> P21Decode(tok.payload)]
      [] tok.kind = "ENUM" /\ tok.payload = "T" -> [alt |-> "bool", v |-> TRUE]
      [] tok.kind = "ENUM" /\ tok.payload = "F" -> [alt |-> "bool", v |-> FALSE]
      [] tok.kind = "ENUM" /\ tok.payload = "U" -> [alt |-> "monostate", v |-> ""]
      [] tok.kind = "ENUM" -> [alt |-> "string", v |-> tok.payload]
      [] tok.kind = "REAL" -> [alt |-> "double", v |-> tok.payload]
      [] tok.kind = "INTEGER" -> [alt |-> "long", v |-> tok.payload]
      [] tok.kind = "REF" -> [alt |-> "uint32_t", v |-> tok.payload]

\* the Argument the top-level argument starting at p decodes to
ArgumentAt(t, p) ==
    CASE t[p].kind \in SimpleKinds -> [shape |-> "Scalar", simple |-> Denotes(t[p])]
      [] t[p].kind = "EMPTY" ->
            [shape |-> "Scalar", simple |-> [alt |-> "monostate", v |-> ""]]
      [] t[p].kind = "SET_BEGIN" ->
            [shape |-> "List", items |-> GetArgs(t, p + 1, <<>>).arguments]
      [] t[p].kind = "LABEL" ->
            [shape |-> "Object",
             map |-> [k \in {"type", "typecode", "value"} |->
                CASE k = "type" ->
                        [shape |-> "Scalar", simple |-> [alt |-> "long", v |-> TokenCode("LABEL")]]
                  [] k = "typecode" ->
                        [shape |-> "Scalar",
                         simple |-> [alt |-> "uint32_t", v |-> IfcTypeToTypeCode(t[p].payload)]]
                  [] k = "value" ->
                        [shape |-> "List", items |-> GetArgs(t, p + 2, <<>>).arguments]]]

Nesting == Len(stack) - 1

\* C3: GetArgs enforces a maximum recursion depth: whenever the nesting of
\* the token stream reaches the maximum, the call has failed with "nesting
\* too deep" instead of recursing further (for some maximum within the
\* length of the tapes).
C3_DepthIsBounded ==
    \E max \in 1..MaxTape :
        Nesting >= max => pc = "nesting too deep"

(***************************************************************************)
(* C4                                                                      *)
(***************************************************************************)
\* C4: when the token stream ends inside a list that a SET_BEGIN or a
\* LABEL opened, before its SET_END or LINE_END, the call does not return
\* the arguments read so far as if the list had ended.
C4_NoTruncatedList ==
    [][(pc = "GetArgs" /\ Nesting >= 1 /\ IsAtEnd(tape, pos) /\ ~Top.endOfList)
         => ~(Len(stack') = Len(stack) - 1 /\ stack'[Len(stack')].at = "loop")]_vars

(***************************************************************************)
(* C5                                                                      *)
(***************************************************************************)
\* the SET_END tokens that close a nested list of the line starting at a
NestedCloses(t, a) ==
    {q \in a..Len(t) :
        /\ t[q].kind = "SET_END"
        /\ DepthAt(t, a, q) >= 1
        /\ \A i \in a..q : t[i].kind # "LINE_END" /\ DepthAt(t, a, i) >= 0}

\* C5: a GetArgs call reports which terminator ended it: the line decoded
\* from the tape differs from the line decoded from the same tape with the
\* SET_END of one nested list replaced by a LINE_END.
C5_TerminatorIsReported ==
    (Returned /\ ~InvalidLine /\ expressID = 1) =>
        \A q \in NestedCloses(tape, 1) :
            retVal # RawLineOf([tape EXCEPT ![q] = LINE_END], modelOpen, 1)

(***************************************************************************)
(* C6                                                                      *)
(***************************************************************************)
ObjectKeys == {"type", "typecode", "value"}

\* every Object of the tree a has the three keys and a List as its value
RECURSIVE ObjectsAreLabels(_)
ObjectsAreLabels(a) ==
    CASE a.shape = "Scalar" -> TRUE
      [] a.shape = "List" -> \A i \in 1..Len(a.items) : ObjectsAreLabels(a.items[i])
      [] a.shape = "Object" ->
            /\ DOMAIN a.map = ObjectKeys
            /\ a.map["type"] =
                 [shape |-> "Scalar", simple |-> [alt |-> "long", v |-> TokenCode("LABEL")]]
            /\ a.map["typecode"].shape = "Scalar"
            /\ a.map["typecode"].simple.alt = "uint32_t"
            /\ a.map["value"].shape = "List"
            /\ \A k \in DOMAIN a.map : ObjectsAreLabels(a.map[k])

\* the Objects of the tree a, each before the Objects of its value
RECURSIVE ObjectsIn(_)
RECURSIVE ObjectsInItems(_)
ObjectsIn(a) ==
    CASE a.shape = "Scalar" -> <<>>
      [] a.shape = "List" -> ObjectsInItems(a.items)
      [] a.shape = "Object" ->
            <<a.map>> \o (IF "value" \in DOMAIN a.map THEN ObjectsIn(a.map["value"]) ELSE <<>>)
ObjectsInItems(l) ==
    IF l = <<>> THEN <<>> ELSE ObjectsIn(Head(l)) \o ObjectsInItems(Tail(l))

IsLabelRead(o) == o.op = "GetTokenType" /\ o.line = 73 /\ o.kind = "LABEL"
LabelReads == SelectSeq(ops, IsLabelRead)

EnumJustRead ==
    /\ pc = "GetArgs"
    /\ Len(ops) >= 3
    /\ ops[Len(ops)].line = 138
    /\ ops[Len(ops) - 2].kind = "ENUM"

\* C7: an ENUM token is stored as the boolean true when its payload is
\* exactly "T", as false when exactly "F", as null when exactly "U", and as
\* the text of the payload otherwise.
C7_EnumMapping ==
    EnumJustRead =>
        LET s == tape[ops[Len(ops) - 2].at].payload
            a == Top.arguments[Len(Top.arguments)]
        IN  /\ a.shape = "Scalar"
            /\ s = "T" => a.simple = [alt |-> "bool", v |-> TRUE]
            /\ s = "F" => a.simple = [alt |-> "bool", v |-> FALSE]
            /\ s = "U" => a.simple = [alt |-> "monostate", v |-> ""]
            /\ s \notin {"T", "F", "U"} => a.simple = [alt |-> "string", v |-> s]

\* an ENUM that only starts with T was stored as text
C7_Witness ==
    /\ EnumJustRead
    /\ tape[ops[Len(ops) - 2].at].payload = "TRUE"
    /\ Top.arguments[Len(Top.arguments)].simple.alt = "string"

(***************************************************************************)
(* C8                                                                      *)
(***************************************************************************)
\* C8: GetRawLinesData returns one record per identifier, in the order of
\* expressIDs, the k-th being what GetRawLineData returns for the k-th
\* identifier alone; while the loop runs, the records it has pushed are
\* those of the identifiers it has passed.
C8_BatchIsPointwise ==
    api = "GetRawLinesData" =>
        /\ \A k \in 1..Len(result) :
             /\ k <= Len(expressIDs)
             /\ result[k] = RawLineOf(tape, modelOpen, expressIDs[k])
        /\ pc = "GetRawLinesData" => Len(result) = it - 1
        /\ pc = "done" => Len(result) = Len(expressIDs)

\* a batch of a valid line, an invalid one and another valid line
C8_Witness ==
    /\ api = "GetRawLinesData"
    /\ pc = "done"
    /\ Len(result) = 3
    /\ result[1].type = Some(10)
    /\ result[2].type = Nullopt
    /\ result[3].type = Some(20)
    /\ result[1].arguments # result[3].arguments

(***************************************************************************)
(* The visitor of cpp-ifc-test.cpp: processArgument dispatches on the      *)
(* shape of an IfcArgument to one of three handlers, and the handlers of   *)
(* lists and objects call processArgument for each child.  The walk is     *)
(* recorded as the sequence of handler events.  An IfcArgumentObject is an *)
(* unordered_map, so its handler meets the keys in an order the program    *)
(* does not choose: order is that order.                                   *)
(***************************************************************************)
Event(e, v) == [ev |-> e, simple |-> v]
NoValue == Simple("", "")

KeyOrders ==
    {o \in [1..3 -> {"type", "typecode", "value"}] : \A i, j \in 1..3 : o[i] = o[j] => i = j}

RECURSIVE processArgument(_, _)
RECURSIVE processList(_, _)
RECURSIVE processObject(_, _, _)
processArgument(arg, order) ==
    CASE arg.shape = "Scalar" -> <<Event("Scalar", arg.simple)>>
      [] arg.shape = "List" ->
            <<Event("List", NoValue)>> \o processList(arg.items, order) \o <<Event("end", NoValue)>>
      [] arg.shape = "Object" ->
            <<Event("Object", NoValue)>> \o processObject(arg.map, order, 1)
processList(list, order) ==
    IF list = <<>> THEN <<>>
    ELSE processArgument(Head(list), order) \o processList(Tail(list), order)
processObject(obj, order, i) ==
    IF i > Len(order) THEN <<>>
    ELSE (IF order[i] \in DOMAIN obj
          THEN <<Event(order[i], NoValue)>> \o processArgument(obj[order[i]], order)
          ELSE <<>>)
         \o processObject(obj, order, i + 1)

(***************************************************************************)
(* C9                                                                      *)
(***************************************************************************)
\* the events of a walk without the keys of the objects and without the
\* two scalars an object holds under "type" and "typecode"
RECURSIVE ShapeOf(_)
ShapeOf(evs) ==
    IF evs = <<>> THEN <<>>
    ELSE IF Head(evs).ev \in {"type", "typecode"} THEN ShapeOf(SubSeq(evs, 3, Len(evs)))
    ELSE IF Head(evs).ev = "value" THEN ShapeOf(Tail(evs))
    ELSE <<Head(evs)>> \o ShapeOf(Tail(evs))

\* the shape written in the tokens a..e of the tape: a list per
\* SET_BEGIN ... SET_END, an object per LABEL, a scalar per payload token
\* and per EMPTY
RECURSIVE Written(_, _, _)
Written(t, a, e) ==
    IF a > e THEN <<>>
    ELSE (CASE t[a].kind = "SET_BEGIN" -> <<[ev |-> "List", simple |-> [alt |-> "", v |-> ""]]>>
            [] t[a].kind = "SET_END" -> <<[ev |-> "end", simple |-> [alt |-> "", v |-> ""]]>>
            [] t[a].kind = "LABEL" -> <<[ev |-> "Object", simple |-> [alt |-> "", v |-> ""]]>>
            [] t[a].kind = "EMPTY" ->
                  <<[ev |-> "Scalar", simple |-> [alt |-> "monostate", v |-> ""]]>>
            [] t[a].kind \in SimpleKinds -> <<[ev |-> "Scalar", simple |-> Denotes(t[a])]>>
            [] OTHER -> <<>>)
         \o Written(t, a + 1, e)

\* C9: for a well-nested line, the walk of the decoded arguments with the
\* three-handler visitor gives back the nesting written in the tokens: one
\* List per SET_BEGIN ... SET_END pair (the pair around the arguments
\* included), one Object per LABEL, the children in the order of their
\* tokens, in whatever order an Object yields its three keys.
C9_WalkGivesBackShape ==
    (Returned /\ ~InvalidLine /\ WellNested(tape, ArgumentOffset(tape, expressID))) =>
        LET a == ArgumentOffset(tape, expressID) IN
        \A order \in KeyOrders :
            ShapeOf(processArgument(retVal.arguments, order)) =
                <<[ev |-> "List", simple |-> [alt |-> "", v |-> ""]]>>
                \o Written(tape, a, SectionEnd(tape, a))

\* a well-nested line with an Object whose value holds a scalar
C9_Witness ==
    /\ Returned
    /\ ~InvalidLine
    /\ WellNested(tape, ArgumentOffset(tape, expressID))
    /\ Len(retVal.arguments.items) = 1
    /\ retVal.arguments.items[1].shape = "Object"
    /\ Len(retVal.arguments.items[1].map["value"].items) = 1
    /\ retVal.arguments.items[1].map["value"].items[1].shape = "Scalar"

(***************************************************************************)
(* C10                                                                     *)
(***************************************************************************)
Accessors ==
    {"GetStringArgument", "GetDecodedStringArgument", "GetDoubleArgument",
     "GetIntArgument", "GetRefArgument"}

\* the accessor that reads the payload of a token of kind k
Reads(a, k) ==
    \/ a = "GetStringArgument" /\ k \in {"LABEL", "ENUM"}
    \/ a = "GetDecodedStringArgument" /\ k = "STRING"
    \/ a = "GetDoubleArgument" /\ k = "REAL"
    \/ a = "GetIntArgument" /\ k = "INTEGER"
    \/ a = "GetRefArgument" /\ k = "REF"

\* C10: every accessor call of a decode comes right after a GetTokenType
\* call and one StepBack call, with no other call on the loader between
\* them; the accessor is the one of the kind GetTokenType returned, and it
\* reads the token that was classified.
C10_AccessorProtocol ==
    \A i \in 1..Len(ops) :
        ops[i].op \in Accessors =>
            /\ i >= 3
            /\ ops[i - 1].op = "StepBack"
            /\ ops[i - 2].op = "GetTokenType"
            /\ Reads(ops[i].op, ops[i - 2].kind)
            /\ ops[i].at = ops[i - 2].at
            /\ ops[i].kind = ops[i - 2].kind

\* a decode that has read a label name and, in its value list, an integer
C10_Witness ==
    /\ Returned
    /\ \E i, j \in 1..Len(ops) :
         /\ i < j
         /\ ops[i].op = "GetStringArgument" /\ ops[i].kind = "LABEL"
         /\ ops[j].op = "GetIntArgument" /\ ops[j].kind = "INTEGER"

(***************************************************************************)
(* C11                                                                     *)
(***************************************************************************)
\* C11: the token GetArgs consumes between the name of a LABEL and the
\* recursive call for its value list (the GetTokenType of line 118, whose
\* result is dropped) is a SET_BEGIN; no token of another classification is
\* consumed there.
C11_LabelIsFollowedBySetBegin ==
    \A i \in 1..Len(ops) :
        (ops[i].op = "GetTokenType" /\ ops[i].line = 118) => ops[i].kind = "SET_BEGIN"

(***************************************************************************)
(* C12                                                                     *)
(***************************************************************************)
\* the classifications GetArgs has a case for
HandledKinds ==
    {"LINE_END", "SET_END", "EMPTY", "SET_BEGIN", "LABEL",
     "STRING", "ENUM", "REAL", "INTEGER", "REF"}

\* the loop classified a token of no handled kind
IsSkip(o) == o.op = "GetTokenType" /\ o.line = 73 /\ o.kind \notin HandledKinds

\* the tape without its token at q
Without(t, q) == SubSeq(t, 1, q - 1) \o SubSeq(t, q + 1, Len(t))

\* C12: a token the loop classifies as none of LINE_END, SET_END, EMPTY,
\* SET_BEGIN, LABEL, STRING, ENUM, REAL, INTEGER and REF is passed over: the
\* call goes on in its loop with the cursor behind the token, and the line
\* that is returned has the arguments decoded from the tape without that
\* token.
C12_UnrecognizedTokenIsSkipped ==
    /\ (pc = "GetArgs" /\ ops # <<>> /\ IsSkip(ops[Len(ops)])) =>
         /\ pos = ops[Len(ops)].at + 1
         /\ Top.at = "loop"
         /\ ~Top.endOfList
    /\ (Returned /\ ~InvalidLine) =>
         \A i \in 1..Len(ops) :
            IsSkip(ops[i]) =>
                retVal.arguments =
                    [shape |-> "List",
                     items |-> GetArgs(Without(tape, ops[i].at),
                                       ArgumentOffset(tape, expressID), <<>>).arguments]

\* a line with an unrecognized token between two of its arguments
C12_Witness ==
    /\ Returned
    /\ ~InvalidLine
    /\ Len(retVal.arguments.items) = 2
    /\ \E i \in 1..Len(ops) :
         /\ IsSkip(ops[i])
         /\ \E j, k \in 1..Len(ops) :
              /\ j < i /\ i < k
              /\ ops[j].line = 73 /\ ops[j].kind \in {"EMPTY", "INTEGER"}
              /\ ops[k].line = 73 /\ ops[k].kind \in {"EMPTY", "INTEGER"}

(***************************************************************************)
(* C13                                                                     *)
(***************************************************************************)
\* the LINE_END tokens at or after the first argument of the line
RecordEnds(t, id) == {e \in LineEnds(t) : e >= ArgumentOffset(t, id)}

FirstRecordEnd(t, id) ==
    CHOOSE e \in RecordEnds(t, id) : \A f \in RecordEnds(t, id) : e <= f

\* the loader calls that classify or read a token
TouchesToken(o) == o.op \notin {"IsAtEnd", "StepBack"}

\* C13: a GetRawLineData call neither classifies nor reads a token behind the
\* first LINE_END that follows the first argument of its line; a nested call
\* that LINE_END ends stops the calls around it as well.
C13_CursorStaysInRecord ==
    (api = "GetRawLineData" /\ ~InvalidLine /\ RecordEnds(tape, expressID) # {}) =>
        \A i \in 1..Len(ops) :
            TouchesToken(ops[i]) =>
                ops[i].at <= FirstRecordEnd(tape, expressID)

(***************************************************************************)
(* C14                                                                     *)
(***************************************************************************)
\* GetArgs runs to completion once called: the thread that called it keeps
\* executing it, so a step of it that stays enabled is taken
InitLive == Loaded(SeqsUpTo(StructTokens, MaxLiveTape))
SpecLive == InitLive /\ [][Next]_vars /\ WF_vars(GetArgsStep)

\* the classifications of the loop, in the order of the calls
Classified == SelectSeq(ops, LAMBDA o : o.op = "GetTokenType" /\ o.line = 73)

\* C14: every call of GetArgs on a finite tape returns, the nested ones
\* included; each iteration of its loop leaves the cursor strictly further
\* than it found it, and no token is classified by the loop twice.
C14_GetArgsTerminates ==
    /\ [][InLoop => pos' > pos]_vars
    /\ [](\A i, j \in 1..Len(Classified) : i < j => Classified[i].at < Classified[j].at)
    /\ \A d \in 1..(MaxLiveTape + 1) :
          (pc = "GetArgs" /\ Len(stack) >= d) ~> (Len(stack) < d)

\* a decode with a nested call has returned after three iterations
C14_Witness ==
    /\ Returned
    /\ ~InvalidLine
    /\ Len(Classified) = 3
    /\ \E i \in 1..Len(Classified) : Classified[i].kind \in {"SET_BEGIN", "LABEL"}

====
